---- MODULE Spec2Model ----
(***************************************************************************)
(* Model of musicApp/PythonServer/server.py: the YTDLPHandler request      *)
(* handler (routing, JSON / file responses, CORS preflight) and the        *)
(* two-attempt download orchestration of download_audio.                   *)
(*                                                                         *)
(* The server is an http.server.HTTPServer (not threading): one request is *)
(* handled to completion before the next one is read.  The extraction      *)
(* engine, the filesystem and the client connection are the environment:   *)
(* every call into them either returns or raises, chosen here with \E.     *)
(***************************************************************************)
EXTENDS Integers, Sequences, FiniteSets, TLC

\* ---- bounds of the model ----
MaxDirs == 2      \* temp directories created in one run of the model
MaxNames == 2     \* distinct entry names an engine attempt can write
MaxSize == 2      \* file sizes range over 1..MaxSize

VARIABLES pc, req, wire, pending, catch, connUp, trace,
          nextDir, output_dir, dir, title, downloaded_file, result

vars == <<pc, req, wire, pending, catch, connUp, trace,
          nextDir, output_dir, dir, title, downloaded_file, result>>

\* ---- values ----
None == "None"
Absent == "<absent>"
NonSerial == "<non-serialisable>"

Methods == {"GET", "OPTIONS", "POST", "HEAD"}
Paths == {"/health", "/info", "/download", "/file", "/foo"}
RawVals == {Absent, "", "v"}
Queries == [url : RawVals, path : RawVals]
Names == 1..MaxNames
Sizes == 1..MaxSize
Titles == {"T1", NonSerial}
EngineMsgs == {"E1", "E2"}

ACAO == "Access-Control-Allow-Origin: *"
JsonHeaders == {"Content-Type: application/json", ACAO}
FileHeaders == {"Content-Type: application/octet-stream", "Content-Length", ACAO}
OptionsHeaders == {ACAO, "Access-Control-Allow-Methods: GET, POST, OPTIONS",
                   "Access-Control-Allow-Headers: Content-Type"}
SendErrorHeaders == {"Content-Type: text/html;charset=utf-8", "Content-Length",
                     "Connection: close"}

NoReq == [method |-> None, path |-> None, query |-> [url |-> Absent, path |-> Absent]]
NoPayload == [none |-> TRUE]
NoResp == [kind |-> "none", status |-> 0, headers |-> {}, payload |-> NoPayload]
NoResult == [none |-> TRUE]
NoEntry == [kind |-> "absent", size |-> 0, by |-> "none"]
EmptyDir == [n \in Names |-> NoEntry]

HeadPart(r) == [part |-> "head", status |-> r.status, headers |-> r.headers]
BodyPart(r) == [part |-> "body", payload |-> r.payload]

\* ---- request parsing ----
\* urllib.parse.parse_qs with keep_blank_values=False: blank values are dropped
ParseQs(q) == [k \in {k \in {"url", "path"} : q[k] \notin {Absent, ""}} |-> <<q[k]>>]

\* params.get(key, [None])[0]
GetParam(params, key) == IF key \in DOMAIN params THEN params[key][1] ELSE None

\* Python truthiness of a str-or-None value: "not v"
Falsy(v) == v = None \/ v = ""

\* BaseHTTPRequestHandler dispatches to do_<METHOD>; the class defines two
HasHandler(m) == m \in {"GET", "OPTIONS"}

\* ---- responses ----
Json(status, data) ==
    [kind |-> "json", status |-> status, headers |-> JsonHeaders, payload |-> data]

\* variant: the message of the url routes copied to the path route
MissingParamUrl(name) == Json(400, [error |-> "Missing url parameter"])

\* send_json({'error': 'Missing <name> parameter'}, 400)
MissingParam(name) == Json(400, [error |-> "Missing " \o name \o " parameter"])

\* variant: a fixed text instead of str(e)
ErrorResponseGeneric(e) == Json(500, [error |-> "Internal Server Error"])

ErrorResponse(e) == Json(500, [error |-> e])

\* variant: an error-shaped result is answered with 500
ResultResponseStrict(r) == IF "error" \in DOMAIN r THEN Json(500, r) ELSE Json(200, r)

ResultResponse(r) == Json(200, r)

FileResponse(p) ==
    [kind |-> "file", status |-> 200, headers |-> FileHeaders, payload |-> [bytes |-> p]]

OptionsResponse ==
    [kind |-> "empty", status |-> 200, headers |-> OptionsHeaders, payload |-> NoPayload]

UnsupportedResponse(m) ==
    [kind |-> IF m = "HEAD" THEN "empty" ELSE "html", status |-> 501,
     headers |-> SendErrorHeaders, payload |-> [html |-> "Unsupported method"]]

\* json.dumps succeeds on str / int / bool / None values only
Serialisable(p) == ~("title" \in DOMAIN p /\ p.title = NonSerial)

\* ---- download_audio helpers ----
\* variant: the os.path.isfile test left out
IsEntry(e) == e.kind # "absent"

IsFile(e) == e.kind = "file"

Present(d) == {n \in Names : d[n].kind # "absent"}

RegularFiles(d) == {n \in Names : d[n].kind = "file"}

\* os.listdir returns the entries in an arbitrary order
ListDirOrders(d) ==
    {s \in [1..Cardinality(Present(d)) -> Present(d)] :
        \A i, j \in DOMAIN s : i # j => s[i] # s[j]}

RECURSIVE FirstFile(_, _)
FirstFile(order, d) ==
    IF order = <<>> THEN 0
    ELSE IF IsFile(d[Head(order)]) THEN Head(order)
         ELSE FirstFile(Tail(order), d)

\* what one engine attempt writes below the output template
WrittenEntries ==
    {[kind |-> "absent", size |-> 0], [kind |-> "dir", size |-> 0]}
        \cup {[kind |-> "file", size |-> s] : s \in Sizes}

Outputs == [Names -> WrittenEntries]

Apply(w, who, d) ==
    [n \in Names |-> IF w[n].kind # "absent"
                     THEN [kind |-> w[n].kind, size |-> w[n].size, by |-> who]
                     ELSE d[n]]

\* variant: the bare entry name instead of os.path.join(output_dir, f)
SuccessResultBareName(t, d, f, s) ==
    [success |-> TRUE, title |-> t, filepath |-> <<0, f>>, size |-> s]

SuccessResult(t, d, f, s) ==
    [success |-> TRUE, title |-> t, filepath |-> <<d, f>>, size |-> s]

SoftErrorResult == [error |-> "Download completed but file not found"]

Log(op, ok, val) == Append(trace, [op |-> op, ok |-> ok, val |-> val])

\* An exception leaves the current step: the enclosing "except Exception"
\* (do_GET for /info and /download, send_file for /file) answers 500 with
\* str(e); outside of them it propagates out of the handler.
Raise(e) ==
    IF catch
    THEN pending' = ErrorResponse(e) /\ catch' = FALSE /\ pc' = "send_head"
    ELSE pending' = NoResp /\ catch' = FALSE /\ pc' = "aborted"

Respond(r) == pending' = r /\ pc' = "send_head"

Init ==
    /\ pc = "idle"
    /\ req = NoReq
    /\ wire = <<>>
    /\ pending = NoResp
    /\ catch = FALSE
    /\ connUp = TRUE
    /\ trace = <<>>
    /\ nextDir = 1
    /\ output_dir = 0
    /\ dir = EmptyDir
    /\ title = None
    /\ downloaded_file = 0
    /\ result = NoResult

\* A request arrives on a fresh connection; a handler object is created for it.
Receive(m, p, q) ==
    /\ pc = "idle"
    /\ (m = "GET" /\ p = "/download" /\ ~Falsy(GetParam(ParseQs(q), "url")))
          => nextDir <= MaxDirs
    /\ req' = [method |-> m, path |-> p, query |-> q]
    /\ pc' = IF HasHandler(m) THEN "do_" \o m ELSE "unsupported"
    /\ UNCHANGED <<wire, pending, catch, connUp, trace, nextDir, output_dir, dir,
                   title, downloaded_file, result>>

\* The handler returned (or an exception left it): the connection is closed
\* and the request-scoped state is discarded.  Created directories stay.
Finish ==
    /\ pc \in {"done", "aborted"}
    /\ pc' = "idle"
    /\ req' = NoReq
    /\ wire' = <<>>
    /\ pending' = NoResp
    /\ catch' = FALSE
    /\ connUp' = TRUE
    /\ trace' = <<>>
    /\ output_dir' = 0
    /\ dir' = EmptyDir
    /\ title' = None
    /\ downloaded_file' = 0
    /\ result' = NoResult
    /\ UNCHANGED nextDir

\* No do_<METHOD>: the base class answers with send_error(501).
Unsupported ==
    /\ pc = "unsupported"
    /\ Respond(UnsupportedResponse(req.method))
    /\ UNCHANGED <<req, wire, catch, connUp, trace, nextDir, output_dir, dir,
                   title, downloaded_file, result>>

DoOptions ==
    /\ pc = "do_OPTIONS"
    /\ Respond(OptionsResponse)
    /\ UNCHANGED <<req, wire, catch, connUp, trace, nextDir, output_dir, dir,
                   title, downloaded_file, result>>

DoGet ==
    /\ pc = "do_GET"
    /\ LET params == ParseQs(req.query)
           url == GetParam(params, "url")
           filepath == GetParam(params, "path")
       IN  CASE req.path = "/health" ->
                  /\ Respond(Json(200, [status |-> "ok", version |-> "1.0"]))
                  /\ UNCHANGED catch
             [] req.path = "/info" ->
                  IF Falsy(url)
                  THEN Respond(MissingParam("url"))
                       /\ UNCHANGED catch
                  ELSE pc' = "info_call" /\ catch' = TRUE /\ UNCHANGED pending
             [] req.path = "/download" ->
                  IF Falsy(url)
                  THEN Respond(MissingParam("url"))
                       /\ UNCHANGED catch
                  ELSE pc' = "dl_mkdtemp" /\ catch' = TRUE /\ UNCHANGED pending
             [] req.path = "/file" ->
                  IF Falsy(filepath)
                  THEN Respond(MissingParam("path"))
                       /\ UNCHANGED catch
                  ELSE pc' = "file_exists" /\ UNCHANGED <<catch, pending>>
             [] OTHER ->
                  /\ Respond(Json(404, [error |-> "Not found"]))
                  /\ UNCHANGED catch
    /\ UNCHANGED <<req, wire, connUp, trace, nextDir, output_dir, dir,
                   title, downloaded_file, result>>

\* get_video_info followed by send_json(info)
InfoCall ==
    /\ pc = "info_call"
    /\ \/ \E t \in Titles :
            /\ trace' = Log("info", TRUE, t)
            /\ Respond(Json(200, [title |-> t, author |-> "Unknown", duration |-> 0,
                                  thumbnail |-> "", id |-> ""]))
            /\ UNCHANGED catch
       \/ \E e \in EngineMsgs :
            /\ trace' = Log("info", FALSE, e)
            /\ Raise(e)
    /\ UNCHANGED <<req, wire, connUp, nextDir, output_dir, dir,
                   title, downloaded_file, result>>

\* ---- download_audio ----
\* output_dir = tempfile.mkdtemp(prefix='ytdlp_')
DlMkdtemp ==
    /\ pc = "dl_mkdtemp"
    /\ \/ /\ output_dir' = nextDir
          /\ nextDir' = nextDir + 1
          /\ trace' = Log("mkdtemp", TRUE, "")
          /\ pc' = "dl_primary"
          /\ UNCHANGED <<pending, catch>>
       \/ /\ trace' = Log("mkdtemp", FALSE, "mkdtemp failed")
          /\ Raise("mkdtemp failed")
          /\ UNCHANGED <<output_dir, nextDir>>
    /\ UNCHANGED <<req, wire, connUp, dir, title, downloaded_file, result>>

\* first attempt, with the FFmpegExtractAudio post-processor
DlPrimary ==
    /\ pc = "dl_primary"
    /\ \E w \in Outputs :
        /\ dir' = Apply(w, "primary", dir)
        /\ \/ \E t \in Titles :
                /\ title' = t
                /\ trace' = Log("primary", TRUE, t)
                /\ pc' = "dl_scan1"
           \/ \E e \in EngineMsgs :
                /\ trace' = Log("primary", FALSE, e)
                /\ pc' = "dl_fallback"
                /\ UNCHANGED title
    /\ UNCHANGED <<req, wire, pending, catch, connUp, nextDir, output_dir,
                   downloaded_file, result>>

\* the scan inside the try block of the first attempt
DlScan1 ==
    /\ pc = "dl_scan1"
    /\ \/ \E order \in ListDirOrders(dir) :
            /\ downloaded_file' = FirstFile(order, dir)
            /\ trace' = Log("listdir", TRUE, "")
            /\ pc' = "dl_result"
       \/ /\ trace' = Log("listdir", FALSE, "listdir failed")
          /\ pc' = "dl_fallback"
          /\ UNCHANGED downloaded_file
    /\ UNCHANGED <<req, wire, pending, catch, connUp, nextDir, output_dir, dir,
                   title, result>>

\* second attempt, without post-processing, inside the except block
DlFallback ==
    /\ pc = "dl_fallback"
    /\ \E w \in Outputs :
        /\ dir' = Apply(w, "fallback", dir)
        /\ \/ \E t \in Titles :
                /\ title' = t
                /\ trace' = Log("fallback", TRUE, t)
                /\ pc' = "dl_scan2"
                /\ UNCHANGED <<pending, catch>>
           \/ \E e \in EngineMsgs :
                /\ trace' = Log("fallback", FALSE, e)
                /\ Raise(e)
                /\ UNCHANGED title
    /\ UNCHANGED <<req, wire, connUp, nextDir, output_dir, downloaded_file, result>>

\* the scan inside the except block
DlScan2 ==
    /\ pc = "dl_scan2"
    /\ \/ \E order \in ListDirOrders(dir) :
            /\ downloaded_file' = FirstFile(order, dir)
            /\ trace' = Log("listdir", TRUE, "")
            /\ pc' = "dl_result"
            /\ UNCHANGED <<pending, catch>>
       \/ /\ trace' = Log("listdir", FALSE, "listdir failed")
          /\ Raise("listdir failed")
          /\ UNCHANGED downloaded_file
    /\ UNCHANGED <<req, wire, connUp, nextDir, output_dir, dir, title, result>>

\* the result of download_audio, handed to send_json by do_GET
DlResult ==
    /\ pc = "dl_result"
    /\ IF downloaded_file # 0
       THEN \/ /\ trace' = Log("getsize", TRUE, "")
               /\ result' = SuccessResult(title, output_dir, downloaded_file,
                                          dir[downloaded_file].size)
               /\ Respond(ResultResponse(result'))
               /\ UNCHANGED catch
            \/ /\ trace' = Log("getsize", FALSE, "getsize failed")
               /\ Raise("getsize failed")
               /\ UNCHANGED result
       ELSE /\ result' = SoftErrorResult
            /\ Respond(ResultResponse(result'))
            /\ UNCHANGED <<catch, trace>>
    /\ UNCHANGED <<req, wire, connUp, nextDir, output_dir, dir, title,
                   downloaded_file>>

\* ---- /file ----
FileExists ==
    /\ pc = "file_exists"
    /\ \/ /\ trace' = Log("exists", TRUE, "")
          /\ pc' = "file_read"
          /\ catch' = TRUE
          /\ UNCHANGED pending
       \/ /\ trace' = Log("exists", FALSE, "")
          /\ Respond(Json(404, [error |-> "File not found"]))
          /\ UNCHANGED catch
    /\ UNCHANGED <<req, wire, connUp, nextDir, output_dir, dir, title,
                   downloaded_file, result>>

\* send_file: open and read the whole file, then send it
FileRead ==
    /\ pc = "file_read"
    /\ \/ /\ trace' = Log("read", TRUE, "")
          /\ Respond(FileResponse(GetParam(ParseQs(req.query), "path")))
          /\ UNCHANGED catch
       \/ /\ trace' = Log("read", FALSE, "read failed")
          /\ Raise("read failed")
    /\ UNCHANGED <<req, wire, connUp, nextDir, output_dir, dir, title,
                   downloaded_file, result>>

\* ---- writing a response ----
\* send_response + send_header + end_headers: the status line and the headers
\* go to the socket in one write.  A write that raised leaves the connection
\* broken: later writes on it raise as well.
SendHead ==
    /\ pc = "send_head"
    /\ \/ /\ connUp
          /\ wire' = Append(wire, HeadPart(pending))
          /\ IF pending.kind = "empty"
             THEN pc' = "done" /\ pending' = NoResp /\ catch' = FALSE
             ELSE pc' = "send_body" /\ UNCHANGED <<pending, catch>>
          /\ UNCHANGED <<connUp, trace>>
       \/ /\ connUp' = FALSE
          /\ trace' = Log("write", FALSE, "Broken pipe")
          /\ Raise("Broken pipe")
          /\ UNCHANGED wire
    /\ UNCHANGED <<req, nextDir, output_dir, dir, title, downloaded_file, result>>

\* the body: json.dumps(data).encode() is evaluated after the headers were
\* flushed, then written
SendBody ==
    /\ pc = "send_body"
    /\ IF pending.kind = "json" /\ ~Serialisable(pending.payload)
       THEN /\ trace' = Log("serialise", FALSE, "not JSON serializable")
            /\ Raise("not JSON serializable")
            /\ UNCHANGED <<wire, connUp>>
       ELSE \/ /\ connUp
               /\ wire' = Append(wire, BodyPart(pending))
               /\ pc' = "done"
               /\ pending' = NoResp
               /\ catch' = FALSE
               /\ UNCHANGED <<connUp, trace>>
            \/ /\ connUp' = FALSE
               /\ trace' = Log("write", FALSE, "Broken pipe")
               /\ Raise("Broken pipe")
               /\ UNCHANGED wire
    /\ UNCHANGED <<req, nextDir, output_dir, dir, title, downloaded_file, result>>

Next ==
    \/ \E m \in Methods, p \in Paths, q \in Queries : Receive(m, p, q)
    \/ Finish
    \/ Unsupported
    \/ DoOptions
    \/ DoGet
    \/ InfoCall
    \/ DlMkdtemp
    \/ DlPrimary
    \/ DlScan1
    \/ DlFallback
    \/ DlScan2
    \/ DlResult
    \/ FileExists
    \/ FileRead
    \/ SendHead
    \/ SendBody

Spec == Init /\ [][Next]_vars

TypeOK ==
    /\ pc \in {"idle", "do_GET", "do_OPTIONS", "unsupported", "info_call",
               "dl_mkdtemp", "dl_primary", "dl_scan1", "dl_fallback", "dl_scan2",
               "dl_result", "file_exists", "file_read", "send_head", "send_body",
               "done", "aborted"}
    /\ catch \in BOOLEAN
    /\ connUp \in BOOLEAN
    /\ nextDir \in 1..(MaxDirs + 1)
    /\ output_dir \in 0..MaxDirs
    /\ downloaded_file \in {0} \cup Names

\* ---- vocabulary of the properties ----
Finished == pc \in {"done", "aborted"}

IsGet(p) == req.method = "GET" /\ req.path = p

Missing(k) == req.query[k] \in {Absent, ""}

Raised(op) == \E i \in DOMAIN trace : trace[i].op = op /\ ~trace[i].ok

Returned(op) == \E i \in DOMAIN trace : trace[i].op = op /\ trace[i].ok

Invoked(op) == \E i \in DOMAIN trace : trace[i].op = op

Heads == {i \in DOMAIN wire : wire[i].part = "head"}

IsPrefix(a, b) == Len(a) <= Len(b) /\ \A i \in DOMAIN a : a[i] = b[i]

JsonWire(status, data) ==
    << [part |-> "head", status |-> status, headers |-> JsonHeaders],
       [part |-> "body", payload |-> data] >>

\* the wire holds exactly the JSON response (status, data), or a prefix of it
\* when the connection broke while it was written
Answered(status, data) ==
    /\ IsPrefix(wire, JsonWire(status, data))
    /\ connUp => wire = JsonWire(status, data)

DlRequest == IsGet("/download") /\ ~Missing("url")

DlReturned == pc \in {"send_head", "send_body", "done", "aborted"}

Has500 == \E i \in Heads : wire[i].status = 500

SoftErrorBody == [error |-> "Download completed but file not found"]

C2_BothRaise ==
    \A e \in EngineMsgs :
        ( /\ DlRequest /\ Finished
          /\ Raised("primary")
          /\ \E i \in DOMAIN trace :
                trace[i].op = "fallback" /\ ~trace[i].ok /\ trace[i].val = e )
        => /\ result = NoResult
           /\ Answered(500, [error |-> e])

C2_Witness ==
    /\ DlRequest /\ Finished
    /\ \E i \in DOMAIN trace : trace[i].op = "primary" /\ ~trace[i].ok /\ trace[i].val = "E1"
    /\ \E i \in DOMAIN trace : trace[i].op = "fallback" /\ ~trace[i].ok /\ trace[i].val = "E2"
    /\ wire = JsonWire(500, [error |-> "E2"])

NoEffects ==
    /\ \A i \in DOMAIN trace : trace[i].op = "write"
    /\ output_dir = 0
    /\ result = NoResult

C4_MissingParam ==
    /\ (req.method = "GET" /\ req.path \in {"/info", "/download"} /\ Missing("url"))
       => /\ NoEffects
          /\ Finished => Answered(400, [error |-> "Missing url parameter"])
    /\ (IsGet("/file") /\ Missing("path"))
       => /\ NoEffects
          /\ Finished => Answered(400, [error |-> "Missing path parameter"])

C4_Witness ==
    /\ IsGet("/file") /\ req.query.path = "" /\ req.query.url = "v"
    /\ pc = "done"
    /\ wire = JsonWire(400, [error |-> "Missing path parameter"])

\* ---- C5 ----
\* C5: a request for a path outside /health, /info, /download, /file is
\* answered 404 {error: "Not found"} whatever its method, except OPTIONS,
\* which is answered 200.
C5_UnknownPath ==
    (Finished /\ req.path \notin {"/health", "/info", "/download", "/file"})
    => IF req.method = "OPTIONS"
       THEN connUp => (Len(wire) = 1 /\ wire[1].status = 200)
       ELSE Answered(404, [error |-> "Not found"])

\* ---- C6 ----
\* C6: every response head written carries Access-Control-Allow-Origin: *.
C6_CorsEverywhere == \A i \in Heads : ACAO \in wire[i].headers

\* ---- C7 ----
\* C7: per download call the engine's extract-and-download is invoked at most
\* twice, the fallback is invoked if and only if the primary invocation
\* itself raised, after it, and a scan directly follows an engine invocation
\* that returned.
DlCalls == {i \in DOMAIN trace : trace[i].op \in {"primary", "fallback"}}

C7_AttemptOrder ==
    /\ Cardinality(DlCalls) <= 2
    /\ Invoked("fallback") => Raised("primary")
    /\ (Raised("primary") /\ pc # "dl_fallback") => Invoked("fallback")
    /\ \A i \in DOMAIN trace :
          trace[i].op = "fallback" => \E j \in 1..(i - 1) : trace[j].op = "primary"
    /\ \A i \in DOMAIN trace :
          trace[i].op = "listdir"
             => /\ i > 1
                /\ trace[i - 1].op \in {"primary", "fallback"}
                /\ trace[i - 1].ok

\* ---- C8 ----
\* C8 (as stated): a /download request with a url is answered 500 only if
\* both engine attempts raised.
C8_OnlyBothRaise ==
    (DlRequest /\ Has500) => (Raised("primary") /\ Raised("fallback"))

\* C8 (amended): a /download request with a url is answered 500 only if an
\* exception reached do_GET: the fallback attempt, mkdtemp, the scan after the
\* fallback, the size lookup, or serialising / writing the result raised.  A
\* failure of the primary attempt or of its scan alone, or an empty output
\* directory, is not answered 500.
C8_OnlyEscapedFailure ==
    (DlRequest /\ Has500)
    => \E i \in DOMAIN trace :
          /\ ~trace[i].ok
          /\ \/ trace[i].op \in {"mkdtemp", "fallback", "getsize", "serialise", "write"}
             \/ /\ trace[i].op = "listdir"
                /\ \E j \in 1..(i - 1) : trace[j].op = "fallback"

C8_Witness ==
    /\ DlRequest /\ Finished
    /\ Returned("primary") /\ ~Invoked("fallback")
    /\ Raised("getsize")
    /\ wire = JsonWire(500, [error |-> "getsize failed"])

\* ---- C9 ----
\* C9: a GET request is answered by exactly one response: no second status
\* line is written once a response has been started.
C9_SingleResponse == req.method = "GET" => Cardinality(Heads) <= 1

\* ---- C10 ----
\* C10: the file reported by a success result was written by the engine
\* attempt that returned.
C10_ReportedFileIsFresh ==
    "success" \in DOMAIN result
    => dir[result.filepath[2]].by = (IF Returned("fallback") THEN "fallback" ELSE "primary")

====
